---- MODULE Spec2Model ----
(***************************************************************************)
(* Graph construction of libs/networks/resnet.py (ResNet-v2-50 backbone).  *)
(*                                                                         *)
(* The program builds a TensorFlow graph.  The model keeps the graph as a  *)
(* sequence of operation nodes; a tensor is the index of the node that     *)
(* produces it.  Every node carries the static shape of its output, as     *)
(* TensorFlow's shape inference computes it for the layer in question.     *)
(* Three entry points are modelled: resnet_v2 (Spec), block_layer called   *)
(* on its own (SpecLayer) and fixed_padding called on its own (SpecPad).   *)
(***************************************************************************)
EXTENDS Integers, Sequences, FiniteSets, TLC

VARIABLES
    entry,              \* the function the caller invoked
    data_format,        \* argument data_format
    training,           \* argument training
    kernel_size,        \* argument kernel_size of a direct fixed_padding call
    graph,              \* the operations added to the graph so far
    inputs,             \* the local `inputs` of the running function
    shortcut,           \* the local `shortcut` of the running block
    pc,                 \* position in the code
    i,                  \* loop index of resnet_v2 (enumerate)
    image_feature_map,  \* the dict built by resnet_v2
    result,             \* what the entry function returned (0: nothing yet)
    bl,                 \* arguments and locals of the running block_layer
    blk,                \* arguments of the running block function
    calls,              \* the block_fn calls issued by block_layer, in order
    layers              \* the block_layer calls issued, in order

vars == <<entry, data_format, training, kernel_size, graph, inputs, shortcut,
          pc, i, image_feature_map, result, bl, blk, calls, layers>>

----------------------------------------------------------------------------
(* Bounds of the model. *)
MaxH == 34
MaxW == 3
MaxBatch == 2
MaxKernel == 4
MaxBlocks == 2
MaxFilters == 2
MaxSide == 4
MaxStrides == 2

InputChannels == {1, 3}
DataFormats == {"channels_last", "channels_first"}

----------------------------------------------------------------------------
(* Tensor shapes: <<batch, height, width, channels>> for channels_last and *)
(* <<batch, channels, height, width>> for channels_first.                  *)

HAxis(df) == IF df = "channels_first" THEN 3 ELSE 2
WAxis(df) == IF df = "channels_first" THEN 4 ELSE 3
CAxis(df) == IF df = "channels_first" THEN 2 ELSE 4

MkShape(n, h, w, c, df) ==
    IF df = "channels_first" THEN <<n, c, h, w>> ELSE <<n, h, w, c>>

Batch(s) == s[1]
Height(s, df) == s[HAxis(df)]
Width(s, df) == s[WAxis(df)]
Channels(s, df) == s[CAxis(df)]

CeilDiv(a, b) == (a + b - 1) \div b

\* The tensor produced by the last node of g.
Last(g) == Len(g)

\* Static shape of tensor t of graph g.
ShapeOf(g, t) == g[t].shape

----------------------------------------------------------------------------
(* Layers of the tensor library, by their shape semantics.                 *)

\* layers.ZeroPadding2D(padding)(x).  A tuple of two ints is read by Keras
\* as (symmetric_height_pad, symmetric_width_pad): the first int pads the
\* top and the bottom, the second int pads the left and the right.
ZeroPadding2D(g, x, padding, df) ==
    LET s == ShapeOf(g, x)
        top == padding[1]
        bottom == padding[1]
        left == padding[2]
        right == padding[2]
    IN  Append(g, [op |-> "ZeroPadding2D", args |-> <<x>>,
                   pads |-> <<top, bottom, left, right>>,
                   shape |-> MkShape(Batch(s),
                                     Height(s, df) + top + bottom,
                                     Width(s, df) + left + right,
                                     Channels(s, df), df)])

\* Variant: a VALID window count that forgets the first window.
ConvOutputLength_NoFirstWindow(n, k, s, padding) ==
    IF padding = "SAME" THEN CeilDiv(n, s) ELSE (n - k) \div s

\* Output length of a convolution or pooling window along one spatial axis.
ConvOutputLength(n, k, s, padding) ==
    IF padding = "SAME" THEN CeilDiv(n, s) ELSE ((n - k) \div s) + 1

\* layers.Conv2D(filters, kernel_size, strides, padding, use_bias=False)(x)
Conv2D(g, x, f, k, s, padding, df, via) ==
    LET sh == ShapeOf(g, x)
    IN  Append(g, [op |-> "Conv2D", args |-> <<x>>, filters |-> f,
                   kernel_size |-> k, strides |-> s, padding |-> padding,
                   via |-> via,
                   shape |-> MkShape(Batch(sh),
                                ConvOutputLength(Height(sh, df), k, s, padding),
                                ConvOutputLength(Width(sh, df), k, s, padding),
                                f, df)])

\* layers.MaxPool2D(pool_size, strides, padding)(x)
MaxPool2D(g, x, k, s, padding, df) ==
    LET sh == ShapeOf(g, x)
    IN  Append(g, [op |-> "MaxPool2D", args |-> <<x>>, pool_size |-> k,
                   strides |-> s, padding |-> padding,
                   shape |-> MkShape(Batch(sh),
                                ConvOutputLength(Height(sh, df), k, s, padding),
                                ConvOutputLength(Width(sh, df), k, s, padding),
                                Channels(sh, df), df)])

\* layers.ReLU()(x)
ReLU(g, x) ==
    Append(g, [op |-> "ReLU", args |-> <<x>>, shape |-> ShapeOf(g, x)])

\* tf.identity(x, name)
Identity(g, x, nm) ==
    Append(g, [op |-> "Identity", args |-> <<x>>, name |-> nm,
               shape |-> ShapeOf(g, x)])

\* Broadcast of two dimensions; 0 when they are incompatible.
BroadcastDim(a, b) ==
    IF a = b THEN a ELSE IF a = 1 THEN b ELSE IF b = 1 THEN a ELSE 0

\* Shape of x + y for two rank-4 tensors (elementwise add with broadcast).
BroadcastShape(a, b) == [d \in 1..4 |-> BroadcastDim(a[d], b[d])]

\* x + y
Add(g, x, y) ==
    Append(g, [op |-> "Add", args |-> <<x, y>>,
               shape |-> BroadcastShape(ShapeOf(g, x), ShapeOf(g, y))])

----------------------------------------------------------------------------
(* Convenience functions of resnet.py.                                     *)

batch_norm(g, x, tr, df) ==
    Append(g, [op |-> "batch_normalization", args |-> <<x>>,
               axis |-> IF df = "channels_first" THEN 1 ELSE 3,
               training |-> tr, shape |-> ShapeOf(g, x)])

fixed_padding(g, x, ks, df) ==
    LET pad_total == ks - 1
        pad_beg == pad_total \div 2
        pad_end == pad_total - pad_beg
    IN  ZeroPadding2D(g, x, <<pad_beg, pad_end>>, df)

\* Variant: the strided convolution without the explicit padding.
conv2d_fixed_padding_Unpadded(g, x, f, ks, s, df, via) ==
    Conv2D(g, x, f, ks, s, IF s = 1 THEN "SAME" ELSE "VALID", df, via)

conv2d_fixed_padding(g, x, f, ks, s, df, via) ==
    LET g1 == IF s > 1 THEN fixed_padding(g, x, ks, df) ELSE g
        x1 == IF s > 1 THEN Last(g1) ELSE x
    IN  Conv2D(g1, x1, f, ks, s, IF s = 1 THEN "SAME" ELSE "VALID", df, via)

\* Variant: a projection shortcut that ignores the layer's strides.
projection_shortcut_Unstrided(g, x, layer, df) ==
    conv2d_fixed_padding(g, x, layer.filters_out, 1, 1, df,
                         "projection_shortcut")

\* The closure projection_shortcut of block_layer, applied to x.
projection_shortcut(g, x, layer, df) ==
    conv2d_fixed_padding(g, x, layer.filters_out, 1, layer.strides, df,
                         "projection_shortcut")

\* "C%d" % n and 'block_layer{}'.format(n)
Digit(d) == <<"0", "1", "2", "3", "4", "5", "6", "7", "8", "9">>[d + 1]
RECURSIVE FormatInt(_)
FormatInt(n) == IF n < 10 THEN Digit(n)
                ELSE FormatInt(n \div 10) \o Digit(n % 10)
\* Variant: feature keys numbered one too high.
FeatureKey_OffByOne(n) == "C" \o FormatInt(n + 1)
FeatureKey(n) == "C" \o FormatInt(n)
LayerName(n) == "block_layer" \o FormatInt(n)

block_strides == <<1, 2, 2, 2>>
\* Variant: the block counts of ResNet-18.
block_sizes_18 == <<2, 2, 2, 2>>
block_sizes == <<3, 4, 6, 3>>

NoFrame == [none |-> TRUE]
EmptyMap == [k \in {} |-> 0]
InputNode(shape) == [op |-> "input", args |-> <<>>, shape |-> shape]

\* Line 217 of block_layer together with its arguments.
BlockLayerFrame(f, bottleneck, block_fn, blocks, strides, nm) ==
    [filters |-> f, bottleneck |-> bottleneck, block_fn |-> block_fn,
     blocks |-> blocks, strides |-> strides, name |-> nm,
     filters_out |-> IF bottleneck THEN f * 4 ELSE f,
     k |-> 0]

----------------------------------------------------------------------------
(* Initial states: the moment the entry function is called.                *)

InitCommon ==
    /\ data_format \in DataFormats
    /\ inputs = 1
    /\ shortcut = 0
    /\ i = 0
    /\ image_feature_map = EmptyMap
    /\ result = 0
    /\ blk = NoFrame
    /\ calls = <<>>
    /\ layers = <<>>

\* resnet_v2(inputs, training, data_format)
Init ==
    /\ InitCommon
    /\ entry = "resnet_v2"
    /\ training \in BOOLEAN
    /\ kernel_size = 0
    /\ \E n \in 1..MaxBatch, h \in 1..MaxH, w \in 1..MaxW, c \in InputChannels :
          graph = <<InputNode(MkShape(n, h, w, c, data_format))>>
    /\ bl = NoFrame
    /\ pc = "initial_conv"

\* block_layer(inputs, filters, bottleneck, block_fn, blocks, strides, ...)
\* with the block function that matches the bottleneck flag.
InitLayer ==
    /\ InitCommon
    /\ entry = "block_layer"
    /\ training \in BOOLEAN
    /\ kernel_size = 0
    /\ \E n \in {1, MaxBatch}, h \in 1..MaxSide, w \in 1..MaxW,
          c \in InputChannels :
          graph = <<InputNode(MkShape(n, h, w, c, data_format))>>
    /\ \E f \in 1..MaxFilters, bottleneck \in BOOLEAN, blocks \in 0..MaxBlocks,
          strides \in 1..MaxStrides :
          bl = BlockLayerFrame(f, bottleneck,
                               IF bottleneck THEN "_bottleneck_block_v2"
                                             ELSE "_building_block_v2",
                               blocks, strides, "layer")
    /\ pc = "block_layer"

\* fixed_padding(inputs, kernel_size, data_format)
InitPad ==
    /\ InitCommon
    /\ entry = "fixed_padding"
    /\ training = FALSE
    /\ kernel_size \in 1..MaxKernel
    /\ \E n \in 1..MaxBatch, h \in 1..MaxSide, w \in 1..MaxSide,
          c \in InputChannels :
          graph = <<InputNode(MkShape(n, h, w, c, data_format))>>
    /\ bl = NoFrame
    /\ pc = "fixed_padding"

----------------------------------------------------------------------------
(* resnet_v2                                                               *)

\* Variant: the v1 stem, with batch norm and ReLU after the first convolution.
InitialConv_V1 ==
    /\ pc = "initial_conv"
    /\ LET g1 == conv2d_fixed_padding(graph, inputs, 64, 7, 2, data_format,
                                      "resnet_v2")
           g2 == batch_norm(g1, Last(g1), training, data_format)
           g3 == ReLU(g2, Last(g2))
       IN  graph' = Identity(g3, Last(g3), "initial_conv")
    /\ inputs' = Last(graph')
    /\ pc' = "initial_max_pool"
    /\ UNCHANGED <<entry, data_format, training, kernel_size, shortcut, i,
                   image_feature_map, result, bl, blk, calls, layers>>

\* inputs = conv2d_fixed_padding(...); inputs = tf.identity(.., 'initial_conv')
InitialConv ==
    /\ pc = "initial_conv"
    /\ LET g1 == conv2d_fixed_padding(graph, inputs, 64, 7, 2, data_format,
                                      "resnet_v2")
       IN  graph' = Identity(g1, Last(g1), "initial_conv")
    /\ inputs' = Last(graph')
    /\ pc' = "initial_max_pool"
    /\ UNCHANGED <<entry, data_format, training, kernel_size, shortcut, i,
                   image_feature_map, result, bl, blk, calls, layers>>

\* inputs = layers.MaxPool2D(...)(inputs); tf.identity(.., 'initial_max_pool');
\* image_feature_map = {}
InitialMaxPool ==
    /\ pc = "initial_max_pool"
    /\ LET g1 == MaxPool2D(graph, inputs, 3, 2, "SAME", data_format)
       IN  graph' = Identity(g1, Last(g1), "initial_max_pool")
    /\ inputs' = Last(graph')
    /\ image_feature_map' = EmptyMap
    /\ i' = 0
    /\ pc' = "for"
    /\ UNCHANGED <<entry, data_format, training, kernel_size, shortcut,
                   result, bl, blk, calls, layers>>

\* Variant: filters that grow linearly instead of doubling.
ResnetCallBlockLayer_LinearFilters ==
    /\ pc = "for"
    /\ i < Len(block_sizes)
    /\ LET num_blocks == block_sizes[i + 1]
           num_filters == 64 * (i + 1)
       IN  bl' = BlockLayerFrame(num_filters, TRUE, "_bottleneck_block_v2",
                                 num_blocks, block_strides[i + 1],
                                 LayerName(i + 1))
    /\ pc' = "block_layer"
    /\ UNCHANGED <<entry, data_format, training, kernel_size, graph, inputs,
                   shortcut, i, image_feature_map, result, blk, calls, layers>>

\* One iteration of `for i, num_blocks in enumerate([3, 4, 6, 3])` up to the
\* call of block_layer.
ResnetCallBlockLayer ==
    /\ pc = "for"
    /\ i < Len(block_sizes)
    /\ LET num_blocks == block_sizes[i + 1]
           num_filters == 64 * (2 ^ i)
       IN  bl' = BlockLayerFrame(num_filters, TRUE, "_bottleneck_block_v2",
                                 num_blocks, block_strides[i + 1],
                                 LayerName(i + 1))
    /\ pc' = "block_layer"
    /\ UNCHANGED <<entry, data_format, training, kernel_size, graph, inputs,
                   shortcut, i, image_feature_map, result, blk, calls, layers>>

\* return image_feature_map
ResnetReturn ==
    /\ pc = "for"
    /\ ~(i < Len(block_sizes))
    /\ result' = image_feature_map
    /\ pc' = "done"
    /\ UNCHANGED <<entry, data_format, training, kernel_size, graph, inputs,
                   shortcut, i, image_feature_map, bl, blk, calls, layers>>

----------------------------------------------------------------------------
(* block_layer                                                             *)

CallRecord(projection, strides, layer) ==
    [fn |-> bl.block_fn, inputs |-> inputs, filters |-> bl.filters,
     projection_shortcut |-> projection, strides |-> strides,
     layer |-> layer, out |-> 0]

\* inputs = block_fn(inputs, filters, training, projection_shortcut, strides,
\*                   data_format)
BlockLayerFirstBlock ==
    /\ pc = "block_layer"
    /\ layers' = Append(layers, [inputs |-> inputs, filters |-> bl.filters,
                                 bottleneck |-> bl.bottleneck,
                                 block_fn |-> bl.block_fn,
                                 blocks |-> bl.blocks, strides |-> bl.strides,
                                 name |-> bl.name, out |-> 0])
    /\ blk' = [filters |-> bl.filters, projection_shortcut |-> TRUE,
               strides |-> bl.strides]
    /\ calls' = Append(calls, CallRecord(TRUE, bl.strides, Len(layers) + 1))
    /\ bl' = [bl EXCEPT !.k = 1]
    /\ pc' = "pre"
    /\ UNCHANGED <<entry, data_format, training, kernel_size, graph, inputs,
                   shortcut, i, image_feature_map, result>>

\* Variant: every block of the layer gets the layer's strides.
BlockLayerNextBlock_LayerStrides ==
    /\ pc = "block_loop"
    /\ bl.k < bl.blocks
    /\ blk' = [filters |-> bl.filters, projection_shortcut |-> FALSE,
               strides |-> bl.strides]
    /\ calls' = Append(calls, CallRecord(FALSE, bl.strides, Len(layers)))
    /\ bl' = [bl EXCEPT !.k = @ + 1]
    /\ pc' = "pre"
    /\ UNCHANGED <<entry, data_format, training, kernel_size, graph, inputs,
                   shortcut, i, image_feature_map, result, layers>>

\* for _ in range(1, blocks):
\*     inputs = block_fn(inputs, filters, training, None, 1, data_format)
BlockLayerNextBlock ==
    /\ pc = "block_loop"
    /\ bl.k < bl.blocks
    /\ blk' = [filters |-> bl.filters, projection_shortcut |-> FALSE,
               strides |-> 1]
    /\ calls' = Append(calls, CallRecord(FALSE, 1, Len(layers)))
    /\ bl' = [bl EXCEPT !.k = @ + 1]
    /\ pc' = "pre"
    /\ UNCHANGED <<entry, data_format, training, kernel_size, graph, inputs,
                   shortcut, i, image_feature_map, result, layers>>

\* return tf.identity(inputs, name); in resnet_v2 the caller then stores the
\* tensor: image_feature_map["C%d" % (i + 2)] = inputs
BlockLayerReturn ==
    /\ pc = "block_loop"
    /\ ~(bl.k < bl.blocks)
    /\ graph' = Identity(graph, inputs, bl.name)
    /\ inputs' = Last(graph')
    /\ layers' = [layers EXCEPT ![Len(layers)].out = inputs']
    /\ blk' = NoFrame
    /\ IF entry = "resnet_v2"
       THEN /\ image_feature_map' =
                 [key \in DOMAIN image_feature_map \cup {FeatureKey(i + 2)} |->
                     IF key = FeatureKey(i + 2) THEN inputs'
                                                ELSE image_feature_map[key]]
            /\ i' = i + 1
            /\ pc' = "for"
            /\ UNCHANGED result
       ELSE /\ result' = inputs'
            /\ pc' = "done"
            /\ UNCHANGED <<i, image_feature_map>>
    /\ UNCHANGED <<entry, data_format, training, kernel_size, shortcut, bl,
                   calls>>

----------------------------------------------------------------------------
(* The steps shared by the two block functions.                            *)

\* shortcut = inputs; inputs = batch_norm(...); inputs = layers.ReLU()(inputs)
BlockPre ==
    /\ shortcut' = inputs
    /\ LET g1 == batch_norm(graph, inputs, training, data_format)
       IN  graph' = ReLU(g1, Last(g1))
    /\ inputs' = Last(graph')

\* if projection_shortcut is not None: shortcut = projection_shortcut(inputs)
BlockShortcut ==
    IF blk.projection_shortcut
    THEN /\ graph' = projection_shortcut(graph, inputs, bl, data_format)
         /\ shortcut' = Last(graph')
    ELSE UNCHANGED <<graph, shortcut>>

\* Variant: the v1 order, convolution first and batch norm + ReLU after it.
BlockBnReluConv_PostActivation(f, ks, s) ==
    /\ LET g1 == conv2d_fixed_padding(graph, inputs, f, ks, s, data_format,
                                      bl.block_fn)
           g2 == batch_norm(g1, Last(g1), training, data_format)
       IN  graph' = ReLU(g2, Last(g2))
    /\ inputs' = Last(graph')

\* inputs = batch_norm(...); inputs = layers.ReLU()(inputs);
\* inputs = conv2d_fixed_padding(inputs, f, ks, s, data_format)
BlockBnReluConv(f, ks, s) ==
    /\ LET g1 == batch_norm(graph, inputs, training, data_format)
           g2 == ReLU(g1, Last(g1))
       IN  graph' = conv2d_fixed_padding(g2, Last(g2), f, ks, s, data_format,
                                         bl.block_fn)
    /\ inputs' = Last(graph')

\* return inputs + shortcut.  An addition of incompatible static shapes
\* raises while the graph is built.
BlockAdd ==
    /\ graph' = Add(graph, inputs, shortcut)
    /\ inputs' = Last(graph')
    /\ IF 0 \in {ShapeOf(graph', inputs')[d] : d \in 1..4}
       THEN /\ pc' = "raised"
            /\ UNCHANGED calls
       ELSE /\ pc' = "block_loop"
            /\ calls' = [calls EXCEPT ![Len(calls)].out = inputs']

----------------------------------------------------------------------------
(* _bottleneck_block_v2                                                    *)

BottleneckPre ==
    /\ pc = "pre"
    /\ bl.block_fn = "_bottleneck_block_v2"
    /\ BlockPre
    /\ pc' = "shortcut"
    /\ UNCHANGED <<entry, data_format, training, kernel_size, i,
                   image_feature_map, result, bl, blk, calls, layers>>

BottleneckShortcut ==
    /\ pc = "shortcut"
    /\ bl.block_fn = "_bottleneck_block_v2"
    /\ BlockShortcut
    /\ pc' = "conv1"
    /\ UNCHANGED <<entry, data_format, training, kernel_size, inputs, i,
                   image_feature_map, result, bl, blk, calls, layers>>

\* inputs = conv2d_fixed_padding(inputs, filters, kernel_size=1, strides=1)
BottleneckConv1 ==
    /\ pc = "conv1"
    /\ bl.block_fn = "_bottleneck_block_v2"
    /\ graph' = conv2d_fixed_padding(graph, inputs, blk.filters, 1, 1,
                                     data_format, bl.block_fn)
    /\ inputs' = Last(graph')
    /\ pc' = "conv2"
    /\ UNCHANGED <<entry, data_format, training, kernel_size, shortcut, i,
                   image_feature_map, result, bl, blk, calls, layers>>

\* bn, relu, conv2d_fixed_padding(filters, kernel_size=3, strides=strides)
BottleneckConv2 ==
    /\ pc = "conv2"
    /\ bl.block_fn = "_bottleneck_block_v2"
    /\ BlockBnReluConv(blk.filters, 3, blk.strides)
    /\ pc' = "conv3"
    /\ UNCHANGED <<entry, data_format, training, kernel_size, shortcut, i,
                   image_feature_map, result, bl, blk, calls, layers>>

\* bn, relu, conv2d_fixed_padding(4 * filters, kernel_size=1, strides=1)
BottleneckConv3 ==
    /\ pc = "conv3"
    /\ bl.block_fn = "_bottleneck_block_v2"
    /\ BlockBnReluConv(4 * blk.filters, 1, 1)
    /\ pc' = "add"
    /\ UNCHANGED <<entry, data_format, training, kernel_size, shortcut, i,
                   image_feature_map, result, bl, blk, calls, layers>>

BottleneckAdd ==
    /\ pc = "add"
    /\ bl.block_fn = "_bottleneck_block_v2"
    /\ BlockAdd
    /\ UNCHANGED <<entry, data_format, training, kernel_size, shortcut, i,
                   image_feature_map, result, bl, blk, layers>>

----------------------------------------------------------------------------
(* _building_block_v2                                                      *)

BuildingPre ==
    /\ pc = "pre"
    /\ bl.block_fn = "_building_block_v2"
    /\ BlockPre
    /\ pc' = "shortcut"
    /\ UNCHANGED <<entry, data_format, training, kernel_size, i,
                   image_feature_map, result, bl, blk, calls, layers>>

BuildingShortcut ==
    /\ pc = "shortcut"
    /\ bl.block_fn = "_building_block_v2"
    /\ BlockShortcut
    /\ pc' = "conv1"
    /\ UNCHANGED <<entry, data_format, training, kernel_size, inputs, i,
                   image_feature_map, result, bl, blk, calls, layers>>

\* inputs = conv2d_fixed_padding(inputs, filters, kernel_size=3, strides)
BuildingConv1 ==
    /\ pc = "conv1"
    /\ bl.block_fn = "_building_block_v2"
    /\ graph' = conv2d_fixed_padding(graph, inputs, blk.filters, 3,
                                     blk.strides, data_format, bl.block_fn)
    /\ inputs' = Last(graph')
    /\ pc' = "conv2"
    /\ UNCHANGED <<entry, data_format, training, kernel_size, shortcut, i,
                   image_feature_map, result, bl, blk, calls, layers>>

\* bn, relu, conv2d_fixed_padding(filters, kernel_size=3, strides=1)
BuildingConv2 ==
    /\ pc = "conv2"
    /\ bl.block_fn = "_building_block_v2"
    /\ BlockBnReluConv(blk.filters, 3, 1)
    /\ pc' = "add"
    /\ UNCHANGED <<entry, data_format, training, kernel_size, shortcut, i,
                   image_feature_map, result, bl, blk, calls, layers>>

BuildingAdd ==
    /\ pc = "add"
    /\ bl.block_fn = "_building_block_v2"
    /\ BlockAdd
    /\ UNCHANGED <<entry, data_format, training, kernel_size, shortcut, i,
                   image_feature_map, result, bl, blk, layers>>

----------------------------------------------------------------------------
(* fixed_padding called on its own                                         *)

FixedPaddingCall ==
    /\ pc = "fixed_padding"
    /\ graph' = fixed_padding(graph, inputs, kernel_size, data_format)
    /\ result' = Last(graph')
    /\ pc' = "done"
    /\ UNCHANGED <<entry, data_format, training, kernel_size, inputs, shortcut,
                   i, image_feature_map, bl, blk, calls, layers>>

----------------------------------------------------------------------------
Next ==
    \/ InitialConv
    \/ InitialMaxPool
    \/ ResnetCallBlockLayer
    \/ BlockLayerFirstBlock
    \/ BottleneckPre
    \/ BottleneckShortcut
    \/ BottleneckConv1
    \/ BottleneckConv2
    \/ BottleneckConv3
    \/ BottleneckAdd
    \/ BlockLayerNextBlock
    \/ BlockLayerReturn
    \/ ResnetReturn

NextLayer ==
    \/ BlockLayerFirstBlock
    \/ BottleneckPre
    \/ BottleneckShortcut
    \/ BottleneckConv1
    \/ BottleneckConv2
    \/ BottleneckConv3
    \/ BottleneckAdd
    \/ BuildingPre
    \/ BuildingShortcut
    \/ BuildingConv1
    \/ BuildingConv2
    \/ BuildingAdd
    \/ BlockLayerNextBlock
    \/ BlockLayerReturn

NextPad == FixedPaddingCall

Spec == Init /\ [][Next]_vars
SpecLayer == InitLayer /\ [][NextLayer]_vars
SpecPad == InitPad /\ [][NextPad]_vars

----------------------------------------------------------------------------
(* Vocabulary of the properties.                                           *)

InputShape == graph[1].shape
InputH == Height(InputShape, data_format)
InputW == Width(InputShape, data_format)

\* The tensor tf.identity gave the name nm.
Named(nm) ==
    CHOOSE t \in 1..Len(graph) : graph[t].op = "Identity" /\ graph[t].name = nm

H(t) == Height(ShapeOf(graph, t), data_format)
W(t) == Width(ShapeOf(graph, t), data_format)
C(t) == Channels(ShapeOf(graph, t), data_format)
N(t) == Batch(ShapeOf(graph, t))

\* The nodes a block call added to the graph: the block's input is the last
\* node at the time of the call and its sum is the last node it adds.
BlockNodes(c) == (c.inputs + 1)..c.out

NodesOf(S, op) == {t \in S : graph[t].op = op}
ConvsVia(S, via) == {t \in NodesOf(S, "Conv2D") : graph[t].via = via}

\* The tensor handed to the conv2d_fixed_padding call that made convolution t
\* (the zero padding of a strided convolution is part of that call).
ConvInput(t) ==
    LET x == graph[t].args[1]
    IN  IF graph[x].op = "ZeroPadding2D" THEN graph[x].args[1] ELSE x

Returned == pc = "done" /\ entry = "resnet_v2"

FeatureKeys == <<"C2", "C3", "C4", "C5">>
LayerNames == <<"block_layer1", "block_layer2", "block_layer3", "block_layer4">>

----------------------------------------------------------------------------
C2_MultiScaleSizes ==
    /\ pc # "raised"
    /\ Returned =>
        /\ \A k \in 2..5 :
              /\ H(result[FeatureKeys[k - 1]]) = CeilDiv(InputH, 2 ^ k)
              /\ W(result[FeatureKeys[k - 1]]) = CeilDiv(InputW, 2 ^ k)
              /\ N(result[FeatureKeys[k - 1]]) = Batch(InputShape)
        /\ H(Named("initial_conv")) = CeilDiv(InputH, 2)
        /\ W(Named("initial_conv")) = CeilDiv(InputW, 2)
        /\ H(Named("initial_max_pool")) = CeilDiv(H(Named("initial_conv")), 2)
        /\ W(Named("initial_max_pool")) = CeilDiv(W(Named("initial_conv")), 2)
        /\ H(layers[1].out) = H(layers[1].inputs)
        /\ W(layers[1].out) = W(layers[1].inputs)
        /\ \A j \in 2..4 :
              /\ H(layers[j].out) = CeilDiv(H(layers[j].inputs), 2)
              /\ W(layers[j].out) = CeilDiv(W(layers[j].inputs), 2)

C2_Witness ==
    /\ Returned
    /\ InputH = 33
    /\ InputW = 2
    /\ H(result["C5"]) = 2
    /\ H(result["C2"]) = 9

----------------------------------------------------------------------------
\* C4: the graph built by resnet_v2 is the ResNet-50 layout: block layers
\* 1..4 hold 3, 4, 6 and 3 bottleneck blocks, 16 in total; each block has 3
\* main-path convolutions and 3 batch normalizations; the graph has 1 stem
\* convolution and 48 block convolutions, 4 projection-shortcut convolutions
\* (one per block layer) and 48 batch normalizations.
CallsOfLayer(j) == {n \in 1..Len(calls) : calls[n].layer = j}

C4_ResNet50Layout ==
    Returned =>
        LET all == 1..Len(graph)
        IN  /\ Cardinality(CallsOfLayer(1)) = 3
            /\ Cardinality(CallsOfLayer(2)) = 4
            /\ Cardinality(CallsOfLayer(3)) = 6
            /\ Cardinality(CallsOfLayer(4)) = 3
            /\ Len(calls) = 16
            /\ \A n \in 1..Len(calls) :
                  /\ calls[n].fn = "_bottleneck_block_v2"
                  /\ Cardinality(ConvsVia(BlockNodes(calls[n]),
                                          "_bottleneck_block_v2")) = 3
                  /\ Cardinality(NodesOf(BlockNodes(calls[n]),
                                         "batch_normalization")) = 3
            /\ Cardinality(ConvsVia(all, "resnet_v2")) = 1
            /\ Cardinality(ConvsVia(all, "_bottleneck_block_v2")) = 48
            /\ Cardinality(ConvsVia(all, "projection_shortcut")) = 4
            /\ Cardinality(NodesOf(all, "Conv2D")) = 53
            /\ Cardinality(NodesOf(all, "batch_normalization")) = 48
            /\ \A j \in 1..4 :
                  Cardinality({t \in ConvsVia(all, "projection_shortcut") :
                      \E n \in CallsOfLayer(j) : t \in BlockNodes(calls[n])}) = 1

C4_Witness ==
    /\ Returned
    /\ Len(calls) = 16
    /\ Cardinality(NodesOf(1..Len(graph), "Conv2D")) = 53

----------------------------------------------------------------------------
\* C5: residual additions are shape-compatible: in every bottleneck block
\* built by resnet_v2 the main-path tensor and the shortcut tensor that are
\* added have identical batch, height, width and channel dimensions; the
\* strided 3x3 convolution and the strided 1x1 projection of the first block
\* of a layer give the same spatial size, and every identity-shortcut block
\* receives an input with exactly 4 * filters channels.
LastNode == graph[Len(graph)]

C5_AdditionsShapeCompatible ==
    /\ pc # "raised"
    /\ LastNode.op = "Add" =>
          /\ ShapeOf(graph, LastNode.args[1]) = ShapeOf(graph, LastNode.args[2])
          /\ LastNode.shape = ShapeOf(graph, LastNode.args[1])
    /\ (pc = "add" /\ blk.projection_shortcut) =>
          \E p \in ConvsVia((calls[Len(calls)].inputs + 1)..Len(graph),
                            "projection_shortcut") :
             \E m \in ConvsVia((calls[Len(calls)].inputs + 1)..Len(graph),
                               "_bottleneck_block_v2") :
                /\ graph[m].kernel_size = 3
                /\ graph[m].strides = blk.strides
                /\ graph[p].strides = blk.strides
                /\ H(m) = H(p)
                /\ W(m) = W(p)
                /\ shortcut = p
    /\ (pc = "add" /\ ~blk.projection_shortcut) =>
          /\ C(calls[Len(calls)].inputs) = 4 * blk.filters
          /\ shortcut = calls[Len(calls)].inputs
    /\ Returned => Cardinality(NodesOf(1..Len(graph), "Add")) = 16

C5_Witness ==
    /\ pc = "block_loop"
    /\ LastNode.op = "Add"
    /\ calls[Len(calls)].projection_shortcut
    /\ calls[Len(calls)].strides = 2
    /\ H(calls[Len(calls)].inputs) = 5
    /\ H(Len(graph)) = 3
    /\ C(Len(graph)) = 1024

----------------------------------------------------------------------------
\* C6: inside every bottleneck block the order is pre-activation: each of the
\* three main-path convolutions (1x1 with filters, 3x3 with filters and the
\* block's stride, 1x1 with 4 * filters) takes the output of a ReLU that takes
\* the output of a batch normalization; a projection shortcut is applied to
\* the output of the first batch norm + ReLU, without one the shortcut is the
\* block's raw input; the block's result is the sum of the third convolution
\* and the shortcut, with nothing after the addition.
PreActivated(t, src) ==
    /\ graph[ConvInput(t)].op = "ReLU"
    /\ graph[graph[ConvInput(t)].args[1]].op = "batch_normalization"
    /\ graph[graph[ConvInput(t)].args[1]].args[1] = src

IsConv(t, f, ks, st) ==
    /\ graph[t].filters = f
    /\ graph[t].kernel_size = ks
    /\ graph[t].strides = st

BottleneckOrder(c) ==
    LET main == ConvsVia(BlockNodes(c), "_bottleneck_block_v2")
        proj == ConvsVia(BlockNodes(c), "projection_shortcut")
    IN  \E t1, t2, t3 \in main :
           /\ main = {t1, t2, t3}
           /\ t1 < t2
           /\ t2 < t3
           /\ IsConv(t1, c.filters, 1, 1)
           /\ IsConv(t2, c.filters, 3, c.strides)
           /\ IsConv(t3, 4 * c.filters, 1, 1)
           /\ PreActivated(t1, c.inputs)
           /\ PreActivated(t2, t1)
           /\ PreActivated(t3, t2)
           /\ IF c.projection_shortcut
              THEN \E p \in proj :
                      /\ proj = {p}
                      /\ ConvInput(p) = ConvInput(t1)
                      /\ graph[c.out].args = <<t3, p>>
              ELSE /\ proj = {}
                   /\ graph[c.out].args = <<t3, c.inputs>>
           /\ graph[c.out].op = "Add"
           /\ NodesOf(BlockNodes(c), "Add") = {c.out}
           /\ NodesOf(BlockNodes(c), "ReLU") =
                 {ConvInput(t1), ConvInput(t2), ConvInput(t3)}
           /\ Cardinality(NodesOf(BlockNodes(c), "batch_normalization")) = 3

C6_PreActivationOrder ==
    (entry = "resnet_v2" /\ pc = "block_loop") =>
        /\ calls[Len(calls)].out = Len(graph)
        /\ BottleneckOrder(calls[Len(calls)])

C6_Witness ==
    /\ entry = "resnet_v2"
    /\ pc = "block_loop"
    /\ Len(calls) = 4
    /\ calls[4].projection_shortcut
    /\ calls[4].strides = 2
    /\ calls[3].out # 0
    /\ ~calls[3].projection_shortcut

----------------------------------------------------------------------------
\* C8: the stem of resnet_v2 is the 7x7 stride-2 64-filter convolution
\* ('initial_conv'), then the 3x3 stride-2 max pool ('initial_max_pool'), then
\* block layers 1, 2, 3, 4 with strides 1, 2, 2, 2; no batch normalization and
\* no activation lies between the initial convolution and the first block:
\* the first normalization and ReLU are those that open the first block of
\* block layer 1.
Min(S) == CHOOSE x \in S : \A y \in S : x <= y

C8_StemOrder ==
    Returned =>
        LET all == 1..Len(graph)
            conv == Min(NodesOf(all, "Conv2D"))
            pool == Min(NodesOf(all, "MaxPool2D"))
            bn == Min(NodesOf(all, "batch_normalization"))
            relu == Min(NodesOf(all, "ReLU"))
        IN  /\ ConvInput(conv) = 1
            /\ IsConv(conv, 64, 7, 2)
            /\ graph[Named("initial_conv")].args = <<conv>>
            /\ graph[pool].args = <<Named("initial_conv")>>
            /\ graph[pool].pool_size = 3
            /\ graph[pool].strides = 2
            /\ NodesOf(all, "MaxPool2D") = {pool}
            /\ graph[Named("initial_max_pool")].args = <<pool>>
            /\ layers[1].inputs = Named("initial_max_pool")
            /\ \A j \in 1..3 : layers[j + 1].inputs = layers[j].out
            /\ <<layers[1].strides, layers[2].strides, layers[3].strides,
                 layers[4].strides>> = <<1, 2, 2, 2>>
            /\ calls[1].layer = 1
            /\ calls[1].inputs = Named("initial_max_pool")
            /\ graph[bn].args = <<calls[1].inputs>>
            /\ graph[relu].args = <<bn>>
            /\ bn > Named("initial_max_pool")
            /\ bn \in BlockNodes(calls[1])
            /\ relu \in BlockNodes(calls[1])

C8_Witness ==
    /\ Returned
    /\ Len(layers) = 4
    /\ graph[Named("initial_conv")].shape # graph[Named("initial_max_pool")].shape

----------------------------------------------------------------------------
\* C10: the channel counts of the returned feature maps do not depend on the
\* input: C2, C3, C4 and C5 have 256, 512, 1024 and 2048 channels; block layer
\* i+1 uses filters = 64 * 2^i and every one of its blocks, the first through
\* the last, outputs 4 * filters channels.
C10_ChannelCounts ==
    /\ pc # "raised"
    /\ Returned =>
        /\ <<C(result["C2"]), C(result["C3"]), C(result["C4"]),
             C(result["C5"])>> = <<256, 512, 1024, 2048>>
        /\ <<layers[1].filters, layers[2].filters, layers[3].filters,
             layers[4].filters>> = <<64, 128, 256, 512>>
        /\ \A n \in 1..Len(calls) :
              /\ calls[n].filters = layers[calls[n].layer].filters
              /\ C(calls[n].out) = 4 * calls[n].filters

C10_Witness ==
    /\ Returned
    /\ Channels(InputShape, data_format) = 1
    /\ InputH = 34
    /\ C(result["C5"]) = 2048

----------------------------------------------------------------------------
\* C7 as stated: block_layer builds exactly `blocks` blocks for every
\* non-negative `blocks`: block_fn is applied `blocks` times in sequence, each
\* application taking the previous one's output; only the first application
\* gets the projection shortcut and the layer's strides, every later one gets
\* projection_shortcut = None and strides = 1.
LayerReturned == pc = "done" /\ entry = "block_layer"

BlocksChained ==
    /\ Len(calls) >= 1 => calls[1].inputs = 1
    /\ \A n \in 1..Len(calls) :
          /\ calls[n].out # 0
          /\ n > 1 => calls[n].inputs = calls[n - 1].out
          /\ calls[n].fn = bl.block_fn
          /\ calls[n].filters = bl.filters
          /\ calls[n].projection_shortcut = (n = 1)
          /\ calls[n].strides = IF n = 1 THEN bl.strides ELSE 1
          /\ Cardinality(ConvsVia(BlockNodes(calls[n]), "projection_shortcut"))
                = IF n = 1 THEN 1 ELSE 0
          /\ \A t \in ConvsVia(BlockNodes(calls[n]), bl.block_fn) :
                graph[t].strides \in {1, calls[n].strides}
    /\ Len(calls) >= 1 => graph[result].args = <<calls[Len(calls)].out>>

----------------------------------------------------------------------------
----------------------------------------------------------------------------
\* C3: fixed_padding pads the two spatial dimensions by amounts that depend
\* only on kernel_size: with pad_total = kernel_size - 1, pad_beg =
\* pad_total // 2 and pad_end = pad_total - pad_beg, both the height and the
\* width get pad_beg zeros before and pad_end zeros after, so each grows by
\* exactly kernel_size - 1; for kernel_size = 1 the data is left intact; the
\* batch and channel dimensions never change.
C3_PadsBegEndOnBothAxes ==
    (pc = "done" /\ entry = "fixed_padding") =>
        LET pad_beg == (kernel_size - 1) \div 2
            pad_end == (kernel_size - 1) - pad_beg
        IN  /\ graph[result].pads = <<pad_beg, pad_end, pad_beg, pad_end>>
            /\ H(result) = H(1) + kernel_size - 1
            /\ W(result) = W(1) + kernel_size - 1
            /\ N(result) = N(1)
            /\ C(result) = C(1)
            /\ kernel_size = 1 => ShapeOf(graph, result) = ShapeOf(graph, 1)

====
